---- MODULE Spec2Model ----
(***************************************************************************)
(* Model of writekit (src/src/lib.rs, src/src/main.rs): the Loading        *)
(* progress indicator and its ticker threads, the Monitor watch loop, the  *)
(* main event loop, handle_write / convert / handle_proc and the converter *)
(* child processes with their stdout / stderr pipes.                       *)
(***************************************************************************)
EXTENDS Integers, Sequences, FiniteSets, TLC

\* ---- bounds of the model -------------------------------------------------
\* Length of the progress bar and threshold at which a ticker stops.  The
\* source uses the literal 100 (lib.rs:102 and lib.rs:125); the model scales
\* both occurrences to the same small number.
BarLen == 2
\* Number of start() calls (ticker threads ever launched).
MaxStarts == 2
\* Stop messages that may be queued, unreceived, in one ticker's channel.
MaxMsgs == 1
\* The time measured since the latest start() is followed up to this many
\* milliseconds.
MaxElapsed == 100
\* Events the outside world causes (saves by the user, other notifications).
MaxEnv == 1
\* The same for a Monitor on its own.
MaxMonEnv == 2
\* Capacity of one pipe buffer, in units of output.
PipeCap == 1
\* Units of work (writes to stdout, stderr or the output file) of one child.
MaxOut == 2
\* Converter processes spawned in one run.
MaxProcs == 3

\* ---- program constants ---------------------------------------------------
InitialEtaMs == 10000
InitialDelayMs == 100
DelayDivisor == 100

\* Amounts (ms) by which the wall clock advances between two observations.
ClockSteps == {49, 51}

VARIABLES
    timer,      \* Loading.timer, kept as the ms it is in the past: timer.elapsed()
    eta,        \* Loading.eta in ms
    delay,      \* Loading.delay in ms
    thread,     \* Loading.thread: 0 for None, else index of the ticker whose Sender is held
    tickers,    \* ticker threads in launch order
    display,    \* Args.display
    verbose,    \* Args.verbose
    quiet,      \* Args.quiet
    rx,         \* the channel from the watcher: events sent and not yet received
    watched,    \* paths on which watcher.watch() has succeeded
    exists,     \* paths that exist in the file system
    dirty,      \* per path: the event kind the watcher still owes for it, or "none"
    budget,     \* events the outside world may still cause
    mpc,        \* position of the event loop of main
    cur,        \* the event being handled
    pend,       \* children still to be passed to handle_proc by the running handle_write
    procs,      \* converter child processes in spawn order
    called,     \* converters for which convert() was called by the running handle_write
    mine,       \* children spawned by the running handle_write
    result,     \* what the latest handle_write returned: "Ok", "Err", or "none" while it runs
    scripts,    \* what the converters installed on the machine may do
    monPc,      \* position of Monitor::watch
    handled     \* arguments of the handler calls made by Monitor::watch

loadingVars == <<timer, eta, delay, thread, tickers>>
flagVars == <<display, verbose, quiet>>
fsVars == <<rx, watched, exists, dirty, budget>>
mainVars == <<mpc, cur, pend, procs, called, mine, result, scripts>>
monVars == <<monPc, handled>>
vars == <<loadingVars, flagVars, fsVars, mainVars, monVars>>

\* eta_ms / 100 cut off instead of rounded
RoundDivFloor(ms, d) == ms \div d

\* ((ms as f64) / 100.0).round() as u64 : round half away from zero
RoundDiv(ms, d) == (2 * ms + d) \div (2 * d)

\* A ticker: the closure spawned by start() with what it captured.
\*   pc        position in the loop: "recv" (try_recv), "inc" (bar.inc and the
\*             position test), "sleep" (thread::sleep), "done" (thread exited)
\*   pos       bar.position()
\*   delay     the captured delay
\*   connected the Sender of this ticker's channel still exists
\*   msgs      messages queued in the channel
\*   finals    calls of bar.finish() / bar.finish_and_clear()
\*   stop      the branch that ended the loop: "msg" (try_recv gave Ok),
\*             "disc" (try_recv gave Disconnected), "full" (position test),
\*             "none" while the loop runs
NewTicker(d) ==
    [pc |-> "recv", pos |-> 0, delay |-> d, connected |-> TRUE, msgs |-> 0,
     finals |-> 0, stop |-> "none"]

Alive(i) == tickers[i].pc # "done"

\* (variant: the replaced Sender is kept alive)
DropSenderLeaked(ts, old) == ts

\* Assigning self.thread drops the Sender it held before.
DropSender(ts, old) ==
    IF old = 0 THEN ts ELSE [ts EXCEPT ![old].connected = FALSE]

\* Loading::new
LoadingInit ==
    /\ timer = 0
    /\ eta = InitialEtaMs
    /\ delay = InitialDelayMs
    /\ thread = 0
    /\ tickers = <<>>

\* Loading::start
StartOp ==
    /\ Len(tickers) < MaxStarts
    /\ timer' = 0
    /\ tickers' = Append(DropSender(tickers, thread), NewTicker(delay))
    /\ thread' = Len(tickers) + 1
    /\ UNCHANGED <<eta, delay>>

\* a finish() whose message goes to every ticker still running
SendStopAll(ts, t) ==
    [i \in DOMAIN ts |->
        IF t = 0 \/ ts[i].pc = "done" THEN ts[i] ELSE [ts[i] EXCEPT !.msgs = @ + 1]]

\* tx.send(()): queues a message unless the Receiver is gone (error ignored)
SendStop(ts, t) ==
    IF t = 0 \/ ts[t].pc = "done" THEN ts ELSE [ts EXCEPT ![t].msgs = @ + 1]

\* Loading::finish over a delay that the running ticker reads at each sleep
FinishOpShared ==
    /\ thread # 0 => tickers[thread].msgs < MaxMsgs
    /\ eta' = timer
    /\ delay' = RoundDiv(timer, DelayDivisor)
    /\ tickers' = [i \in DOMAIN tickers |->
                     [SendStop(tickers, thread)[i] EXCEPT
                        !.delay = RoundDiv(timer, DelayDivisor)]]
    /\ UNCHANGED <<timer, thread>>

\* Loading::finish with tx.send(()).unwrap(): the call panics when the
\* Receiver is gone
FinishOpUnwrap ==
    /\ thread # 0 => tickers[thread].msgs < MaxMsgs
    /\ thread # 0 => tickers[thread].pc # "done"
    /\ eta' = timer
    /\ delay' = RoundDiv(timer, DelayDivisor)
    /\ tickers' = SendStop(tickers, thread)
    /\ UNCHANGED <<timer, thread>>

\* Loading::finish
FinishOp ==
    /\ thread # 0 => tickers[thread].msgs < MaxMsgs
    /\ eta' = timer
    /\ delay' = RoundDiv(timer, DelayDivisor)
    /\ tickers' = SendStop(tickers, thread)
    /\ UNCHANGED <<timer, thread>>

\* bar.finish() / bar.finish_and_clear(); break: the thread ends and its
\* Receiver is dropped with whatever is still queued.
Finalize(t, why) ==
    [t EXCEPT !.pc = "done", !.finals = @ + 1, !.msgs = 0, !.stop = why]

\* try_recv() that takes no note of a message: only Disconnected ends the loop
TryRecvDeaf(t) ==
    IF ~t.connected THEN Finalize(t, "disc")
    ELSE [t EXCEPT !.pc = "inc"]

\* rx.try_recv() and the match on its result
TryRecv(t) ==
    IF t.msgs > 0 THEN Finalize(t, "msg")
    ELSE IF ~t.connected THEN Finalize(t, "disc")
    ELSE [t EXCEPT !.pc = "inc"]

\* (variant: the position test is > instead of >=)
IncAndTestOffByOne(t) ==
    LET u == [t EXCEPT !.pos = @ + 1]
    IN  IF u.pos > BarLen THEN Finalize(u, "full") ELSE [u EXCEPT !.pc = "sleep"]

\* bar.inc(1); if bar.position() >= 100 { finish; break }
IncAndTest(t) ==
    LET u == [t EXCEPT !.pos = @ + 1]
    IN  IF u.pos >= BarLen THEN Finalize(u, "full") ELSE [u EXCEPT !.pc = "sleep"]

TickRecv(i) ==
    /\ i \in DOMAIN tickers
    /\ tickers[i].pc = "recv"
    /\ tickers' = [tickers EXCEPT ![i] = TryRecv(@)]
    /\ UNCHANGED <<timer, eta, delay, thread, flagVars, fsVars, mainVars, monVars>>

TickInc(i) ==
    /\ i \in DOMAIN tickers
    /\ tickers[i].pc = "inc"
    /\ tickers' = [tickers EXCEPT ![i] = IncAndTest(@)]
    /\ UNCHANGED <<timer, eta, delay, thread, flagVars, fsVars, mainVars, monVars>>

\* thread::sleep(delay) returns.  The sleep lasts at least the captured
\* delay and nothing bounds how far the other threads get meanwhile, so the
\* step is not tied to the clock.
TickWake(i) ==
    /\ i \in DOMAIN tickers
    /\ tickers[i].pc = "sleep"
    /\ tickers' = [tickers EXCEPT ![i].pc = "recv"]
    /\ UNCHANGED <<timer, eta, delay, thread, flagVars, fsVars, mainVars, monVars>>

\* the wall clock advances: Instant::now() moves away from self.timer
Advance ==
    /\ \E d \in ClockSteps : timer + d <= MaxElapsed /\ timer' = timer + d
    /\ UNCHANGED <<eta, delay, thread, tickers, flagVars, fsVars, mainVars, monVars>>

\* ---- paths, events and the file system watcher ---------------------------
\* A path, as far as the program looks at it: its file stem ("" when the path
\* has no file name) and its extension ("" when it has none).
Doc(e) == [stem |-> "doc", ext |-> e]
NoPath == [stem |-> "", ext |-> ""]
\* args.target, the watched root
Root == [stem |-> "target", ext |-> ""]
\* files the user saves
UserPaths == {Doc("md"), Doc("adoc"), [stem |-> "notes", ext |-> "txt"]}
AllPaths == UserPaths \cup {Doc("html"), Doc("pdf"), Doc("png")}

\* Path::extension(): None (here "") without a file name
Extension(p) == IF p.stem = "" THEN "" ELSE p.ext
\* PathBuf::set_extension(): does nothing without a file name
SetExtension(p, e) == IF p.stem = "" THEN p ELSE [p EXCEPT !.ext = e]

Event(k, p) == [kind |-> k, path |-> p]
NoEvent == Event("Other", Root)

\* A write to path p: the watcher owes one event for p; writes that follow
\* before it is sent fall into the same debounce window.
Touch(d, ex, p) ==
    IF d[p] # "none" THEN d
    ELSE [d EXCEPT ![p] = IF p \in ex THEN "Write" ELSE "Create"]

\* the user saves a file under the watched root
UserSave(p) ==
    /\ budget > 0
    /\ budget' = budget - 1
    /\ dirty' = Touch(dirty, exists, p)
    /\ exists' = exists \cup {p}
    /\ UNCHANGED <<rx, watched, loadingVars, flagVars, mainVars, monVars>>

\* the watcher sends an event that is neither Create nor Write
EnvOther ==
    /\ budget > 0
    /\ budget' = budget - 1
    /\ rx' = Append(rx, Event("Other", Root))
    /\ UNCHANGED <<watched, exists, dirty, loadingVars, flagVars, mainVars, monVars>>

\* the debounce window of p ends: the watcher sends the event it owes
FsEmit(p) ==
    /\ dirty[p] # "none"
    /\ rx' = Append(rx, Event(dirty[p], p))
    /\ dirty' = [dirty EXCEPT ![p] = "none"]
    /\ UNCHANGED <<watched, exists, budget, loadingVars, flagVars, mainVars, monVars>>

\* ---- convert: the child processes ----------------------------------------
Flag(x) == [text |-> x, path |-> NoPath]
PathArg(p) == [text |-> "", path |-> p]

\* the verbosity arguments with --log-level none added when verbose
VerbosityArgsSwapped(conv, v) ==
    IF conv \in {"pandoc", "asciidoctor"}
    THEN (IF v THEN <<Flag("--verbose")>> ELSE <<>>)
    ELSE (IF v THEN <<Flag("--log-level"), Flag("none")>> ELSE <<>>)

\* the verbosity arguments, lib.rs:358-369
VerbosityArgs(conv, v) ==
    IF conv \in {"pandoc", "asciidoctor"}
    THEN (IF v THEN <<Flag("--verbose")>> ELSE <<>>)
    ELSE (IF ~v THEN <<Flag("--log-level"), Flag("none")>> ELSE <<>>)

\* the path arguments, lib.rs:373-383
PathArgs(conv, input, output) ==
    IF conv = "pandoc" THEN <<PathArg(input), Flag("-o"), PathArg(output)>>
    ELSE IF conv = "asciidoctor" THEN <<PathArg(input)>>
    ELSE <<PathArg(input), PathArg(output)>>

\* What a child does before it exits: writes to its stdout ("out"), to its
\* stderr ("err") and to its output file ("file").  The converters of one
\* run either print (any interleaving of the two streams) and write no
\* file, or write their files in parts and print nothing.
RECURSIVE SeqsUpTo(_, _)
SeqsUpTo(W, n) ==
    IF n = 0 THEN {<<>>}
    ELSE LET r == SeqsUpTo(W, n - 1)
         IN  r \cup {Append(q, w) : q \in {x \in r : Len(x) = n - 1}, w \in W}
PrintScripts == SeqsUpTo({"out", "err"}, MaxOut)
FileScripts == SeqsUpTo({"file"}, MaxOut)

\* The Child returned by convert(): the process with both pipes.
\*   st      "run" or "exit"
\*   todo    what the process still does before it exits
\*   out,err units buffered in the stdout / stderr pipe
\*   outR,errR  the parent still holds the read end
\*   eofOut,eofErr  the parent has read the stream to its end
Spawned(conv, input, output, v, script) ==
    [conv |-> conv, argv |-> VerbosityArgs(conv, v) \o PathArgs(conv, input, output),
     input |-> input, output |-> output, st |-> "run", todo |-> script,
     out |-> 0, err |-> 0, outR |-> TRUE, errR |-> TRUE,
     eofOut |-> FALSE, eofErr |-> FALSE]

\* Command::new("imgcat").arg(&path).spawn(): no pipes, nothing kept
SpawnedImgcat(path) ==
    [conv |-> "imgcat", argv |-> <<PathArg(path)>>,
     input |-> path, output |-> NoPath, st |-> "run", todo |-> <<>>,
     out |-> 0, err |-> 0, outR |-> FALSE, errR |-> FALSE,
     eofOut |-> FALSE, eofErr |-> FALSE]

\* dropping a Child closes the read ends it still holds; the process runs on
DropChild(c) == [c EXCEPT !.outR = FALSE, !.errR = FALSE]

Running(i) == procs[i].st = "run"
NextWork(i) == IF procs[i].todo = <<>> THEN "exit" ELSE Head(procs[i].todo)
Level(c, w) == IF w = "out" THEN c.out ELSE c.err
ReadEnd(c, w) == IF w = "out" THEN c.outR ELSE c.errR
Fill(c, w) == IF w = "out" THEN [c EXCEPT !.out = @ + 1] ELSE [c EXCEPT !.err = @ + 1]

\* the child writes one unit to a pipe whose read end is open; it is blocked
\* while the pipe buffer is full
ChildWrite(i) ==
    /\ i \in DOMAIN procs /\ Running(i)
    /\ NextWork(i) \in {"out", "err"}
    /\ ReadEnd(procs[i], NextWork(i))
    /\ Level(procs[i], NextWork(i)) < PipeCap
    /\ procs' = [procs EXCEPT ![i] = [Fill(@, NextWork(i)) EXCEPT !.todo = Tail(@)]]
    /\ UNCHANGED <<mpc, cur, pend, called, mine, result, scripts>>
    /\ UNCHANGED <<loadingVars, flagVars, fsVars, monVars>>

\* the child writes to a pipe whose read end is closed: it is killed by
\* SIGPIPE, or it sees EPIPE and goes on
ChildBrokenPipe(i) ==
    /\ i \in DOMAIN procs /\ Running(i)
    /\ NextWork(i) \in {"out", "err"}
    /\ ~ReadEnd(procs[i], NextWork(i))
    /\ \/ procs' = [procs EXCEPT ![i].st = "exit"]
       \/ procs' = [procs EXCEPT ![i].todo = Tail(@)]
    /\ UNCHANGED <<mpc, cur, pend, called, mine, result, scripts>>
    /\ UNCHANGED <<loadingVars, flagVars, fsVars, monVars>>

\* the child writes a part of its output file
ChildFile(i) ==
    /\ i \in DOMAIN procs /\ Running(i)
    /\ NextWork(i) = "file"
    /\ procs' = [procs EXCEPT ![i].todo = Tail(@)]
    /\ dirty' = Touch(dirty, exists, procs[i].output)
    /\ exists' = exists \cup {procs[i].output}
    /\ UNCHANGED <<mpc, cur, pend, called, mine, result, scripts>>
    /\ UNCHANGED <<rx, watched, budget, loadingVars, flagVars, monVars>>

\* the child exits, which closes the write ends of its pipes
ChildExit(i) ==
    /\ i \in DOMAIN procs /\ Running(i)
    /\ NextWork(i) = "exit"
    /\ procs' = [procs EXCEPT ![i].st = "exit"]
    /\ UNCHANGED <<mpc, cur, pend, called, mine, result, scripts>>
    /\ UNCHANGED <<loadingVars, flagVars, fsVars, monVars>>

\* the output file of child i is complete, or the process is gone
OutputSettled(i) == procs[i].st = "exit" \/ \A k \in DOMAIN procs[i].todo : procs[i].todo[k] # "file"

\* ---- main: the event loop (main.rs), handle_write and handle_proc ---------
Exts == {"md", "adoc", "html", "png"}
CurExt == Extension(cur.path)
NewIdx == Len(procs) + 1
\* converter processes spawned so far
Converters == Cardinality({i \in DOMAIN procs : procs[i].conv # "imgcat"})

\* receiver.recv() and the match on the event, main.rs:80-107 and 125-129.
\* main.rs passes a ProgressBar and an eta to handle_write, lib.rs defines
\* handle_write over a Loading: the model follows lib.rs, with the Loading of
\* Loading::new().  The ProgressBar and the locals start and eta of main
\* (main.rs:66-79, 88-107) are not kept, handle_write of lib.rs reads none.
\* The Err arm (main.rs:128) needs a disconnected channel, and main owns the
\* watcher that holds the Sender.
MainRecv ==
    /\ mpc = "recv"
    /\ rx # <<>>
    /\ rx' = Tail(rx)
    /\ IF Head(rx).kind \in {"Create", "Write"}
       THEN /\ mpc' = "dispatch"
            /\ cur' = Head(rx)
       ELSE UNCHANGED <<mpc, cur>>
    /\ UNCHANGED <<pend, procs, called, mine, result, scripts>>
    /\ UNCHANGED <<watched, exists, dirty, budget, loadingVars, flagVars, monVars>>

\* handle_write, the arms "md" and "adoc" up to the call of handle_proc; an
\* Err of convert() is returned and printed by main (main.rs:118)
HwMarkup ==
    /\ mpc = "dispatch"
    /\ CurExt \in {"md", "adoc"}
    /\ Converters < MaxProcs
    /\ StartOp
    /\ LET conv == IF CurExt = "md" THEN "pandoc" ELSE "asciidoctor"
           outhtml == SetExtension(cur.path, "html")
       IN  /\ called' = called \cup {conv}
           /\ \/ /\ result' = "Err"
                 /\ mpc' = "register"
                 /\ UNCHANGED <<procs, mine, pend>>
              \/ \E sc \in scripts :
                 /\ procs' = Append(procs, Spawned(conv, cur.path, outhtml, verbose, sc))
                 /\ mine' = mine \cup {NewIdx}
                 /\ pend' = <<NewIdx>>
                 /\ mpc' = "drain"
                 /\ UNCHANGED result
    /\ UNCHANGED <<cur, scripts, flagVars, fsVars, monVars>>

\* handle_write, the arm "html" up to the calls of handle_proc
HwHtml ==
    /\ mpc = "dispatch"
    /\ CurExt = "html"
    /\ Converters + 1 < MaxProcs
    /\ LET pdf(sc) == Spawned("wkhtmltopdf", cur.path, SetExtension(cur.path, "pdf"), verbose, sc)
           png(sc) == Spawned("wkhtmltoimage", cur.path, SetExtension(cur.path, "png"), verbose, sc)
       IN  \/ /\ called' = called \cup {"wkhtmltopdf"}
              /\ result' = "Err"
              /\ mpc' = "register"
              /\ UNCHANGED <<procs, mine, pend>>
           \/ \E s1 \in scripts :
              /\ called' = called \cup {"wkhtmltopdf", "wkhtmltoimage"}
              /\ procs' = Append(procs, DropChild(pdf(s1)))
              /\ mine' = mine \cup {NewIdx}
              /\ result' = "Err"
              /\ mpc' = "register"
              /\ UNCHANGED pend
           \/ \E s1 \in scripts, s2 \in scripts :
              /\ called' = called \cup {"wkhtmltopdf", "wkhtmltoimage"}
              /\ procs' = procs \o <<pdf(s1), png(s2)>>
              /\ mine' = mine \cup {NewIdx, NewIdx + 1}
              /\ pend' = <<NewIdx, NewIdx + 1>>
              /\ mpc' = "drain"
              /\ UNCHANGED result
    /\ UNCHANGED <<cur, scripts, loadingVars, flagVars, fsVars, monVars>>

\* handle_write, the arm "png"
HwPng ==
    /\ mpc = "dispatch"
    /\ CurExt = "png"
    /\ IF quiet
       THEN result' = "Ok" /\ UNCHANGED <<loadingVars, procs, mine>>
       ELSE /\ FinishOp
            /\ IF display
               THEN \/ /\ procs' = Append(procs, SpawnedImgcat(cur.path))
                       /\ mine' = mine \cup {NewIdx}
                       /\ result' = "Ok"
                    \/ /\ result' = "Err"
                       /\ UNCHANGED <<procs, mine>>
               ELSE result' = "Ok" /\ UNCHANGED <<procs, mine>>
    /\ mpc' = "register"
    /\ UNCHANGED <<cur, pend, called, scripts, flagVars, fsVars, monVars>>

\* handle_write whose last arm calls loading.start()
HwOtherStarts ==
    /\ mpc = "dispatch"
    /\ CurExt \notin Exts
    /\ mpc' = "register"
    /\ result' = "Ok"
    /\ StartOp
    /\ UNCHANGED <<cur, pend, procs, called, mine, scripts>>
    /\ UNCHANGED <<flagVars, fsVars, monVars>>

\* handle_write for any other extension and for a path without extension
HwOther ==
    /\ mpc = "dispatch"
    /\ CurExt \notin Exts
    /\ mpc' = "register"
    /\ result' = "Ok"
    /\ UNCHANGED <<cur, pend, procs, called, mine, scripts>>
    /\ UNCHANGED <<loadingVars, flagVars, fsVars, monVars>>

\* the next handle_proc call of the running handle_write, or its return
AfterProc == IF Len(pend) > 1 THEN "drain" ELSE "register"
AfterProcResult == IF Len(pend) > 1 THEN "none" ELSE "Ok"
\* the stream handle_proc reads from child c
Stream(c) == IF c.eofOut THEN "err" ELSE "out"
Drained(c, w) == IF w = "out" THEN [c EXCEPT !.out = 0] ELSE [c EXCEPT !.err = 0]
AtEof(c, w) ==
    IF w = "out" THEN [c EXCEPT !.eofOut = TRUE, !.outR = FALSE]
    ELSE [c EXCEPT !.eofErr = TRUE, !.errR = FALSE]

\* handle_proc with verbose: a read of the current stream returns data
ProcRead ==
    /\ mpc = "drain" /\ verbose
    /\ LET i == Head(pend)
           w == Stream(procs[i])
       IN  /\ Level(procs[i], w) > 0
           /\ procs' = [procs EXCEPT ![i] = Drained(@, w)]
    /\ UNCHANGED <<mpc, cur, pend, called, mine, result, scripts>>
    /\ UNCHANGED <<loadingVars, flagVars, fsVars, monVars>>

\* handle_proc with verbose: a read of the current stream returns end of
\* file (the pipe is empty and its write end closed); after stdout comes
\* stderr, after stderr handle_proc returns
ProcEof ==
    /\ mpc = "drain" /\ verbose
    /\ LET i == Head(pend)
           w == Stream(procs[i])
       IN  /\ Level(procs[i], w) = 0
           /\ procs[i].st = "exit"
           /\ procs' = [procs EXCEPT ![i] = AtEof(@, w)]
           /\ IF w = "err"
              THEN pend' = Tail(pend) /\ mpc' = AfterProc /\ result' = AfterProcResult
              ELSE UNCHANGED <<pend, mpc, result>>
    /\ UNCHANGED <<cur, called, mine, scripts>>
    /\ UNCHANGED <<loadingVars, flagVars, fsVars, monVars>>

\* handle_proc without verbose: reads nothing, the Child is dropped
ProcDrop ==
    /\ mpc = "drain" /\ ~verbose
    /\ procs' = [procs EXCEPT ![Head(pend)] = DropChild(@)]
    /\ pend' = Tail(pend)
    /\ mpc' = AfterProc
    /\ result' = AfterProcResult
    /\ UNCHANGED <<cur, called, mine, scripts>>
    /\ UNCHANGED <<loadingVars, flagVars, fsVars, monVars>>

\* The result of handle_write is printed if it is an Err (main.rs:118), then
\* watcher.watch(path, Recursive), main.rs:121-123: a failure is printed and
\* the loop goes on.  The event and what was noted about its handle_write
\* are dropped.
MainRegister ==
    /\ mpc = "register"
    /\ \/ watched' = watched \cup {cur.path}
       \/ UNCHANGED watched
    /\ mpc' = "recv"
    /\ cur' = NoEvent
    /\ called' = {}
    /\ mine' = {}
    /\ result' = "none"
    /\ UNCHANGED <<pend, procs, scripts>>
    /\ UNCHANGED <<rx, exists, dirty, budget, loadingVars, flagVars, monVars>>

\* ---- Monitor::watch (lib.rs) ----------------------------------------------
\* the registration of self.paths, lib.rs:180-182
MonStart ==
    /\ monPc = "start"
    /\ \/ watched' = watched \cup {Root} /\ monPc' = "loop"
       \/ monPc' = "failed" /\ UNCHANGED watched
    /\ UNCHANGED <<handled, rx, exists, dirty, budget>>
    /\ UNCHANGED <<loadingVars, flagVars, mainVars>>

\* one turn of the loop, lib.rs:184-199; self.rx.recv() gives no Err while
\* the watcher, a field of the Monitor, holds the Sender
MonLoop ==
    /\ monPc = "loop"
    /\ rx # <<>>
    /\ rx' = Tail(rx)
    /\ \/ /\ Head(rx).kind = "Create"
          /\ \/ /\ watched' = watched \cup {Head(rx).path}
                /\ handled' = Append(handled, Head(rx))
                /\ UNCHANGED monPc
             \/ /\ monPc' = "failed"
                /\ UNCHANGED <<watched, handled>>
       \/ /\ Head(rx).kind # "Create"
          /\ handled' = Append(handled, Head(rx))
          /\ UNCHANGED <<watched, monPc>>
    /\ UNCHANGED <<exists, dirty, budget>>
    /\ UNCHANGED <<loadingVars, flagVars, mainVars>>

\* ---- the Loading API driven by an arbitrary caller -----------------------
Start == StartOp /\ UNCHANGED <<flagVars, fsVars, mainVars, monVars>>
Finish == FinishOp /\ UNCHANGED <<flagVars, fsVars, mainVars, monVars>>
TickerStep == \E i \in 1..Len(tickers) : TickRecv(i) \/ TickInc(i) \/ TickWake(i)

\* nothing but the Loading is in use
Idle ==
    /\ display = FALSE /\ verbose = FALSE /\ quiet = FALSE
    /\ rx = <<>> /\ watched = {} /\ exists = {Root}
    /\ dirty = [p \in AllPaths |-> "none"]
    /\ budget = 0
    /\ mpc = "off" /\ cur = NoEvent /\ pend = <<>> /\ procs = <<>>
    /\ called = {} /\ mine = {} /\ result = "none" /\ scripts = {<<>>}
    /\ monPc = "off" /\ handled = <<>>

InitL == LoadingInit /\ Idle
NextL == Start \/ Finish \/ Advance \/ TickerStep
SpecL == InitL /\ [][NextL]_vars

\* Every ticker is an OS thread of its own: a thread that can take a step
\* eventually takes it.
TickerOf(i) == TickRecv(i) \/ TickInc(i) \/ TickWake(i)
\* The loop of a ticker reads none of timer, eta and delay (the captured
\* delay only sets how long a sleep lasts), so what the tickers eventually
\* do is checked over the runs in which the clock stands still.
NextTick == Start \/ Finish \/ TickerStep
SpecLFair == InitL /\ [][NextTick]_vars /\ \A i \in 1..MaxStarts : WF_vars(TickerOf(i))

\* ---- the program: main with its loop, the watcher and the children --------
\* The tickers launched by loading.start() take no step here: main never
\* waits for a ticker and reads nothing a ticker writes; they are followed
\* in SpecL.
Init ==
    /\ LoadingInit
    /\ display \in BOOLEAN /\ verbose \in BOOLEAN /\ quiet \in BOOLEAN
    /\ rx = <<>> /\ watched = {Root} /\ exists = {Root, Doc("md")}
    /\ dirty = [p \in AllPaths |-> "none"]
    /\ budget = MaxEnv
    /\ mpc = "recv" /\ cur = NoEvent /\ pend = <<>> /\ procs = <<>>
    /\ called = {} /\ mine = {} /\ result = "none"
    /\ scripts \in {PrintScripts, FileScripts}
    /\ monPc = "off" /\ handled = <<>>

Env == EnvOther \/ \E p \in UserPaths : UserSave(p)
Watcher == \E p \in AllPaths : FsEmit(p)
Child ==
    \E i \in DOMAIN procs :
        ChildWrite(i) \/ ChildBrokenPipe(i) \/ ChildFile(i) \/ ChildExit(i)
HandleWrite == HwMarkup \/ HwHtml \/ HwPng \/ HwOther
HandleProc == ProcRead \/ ProcEof \/ ProcDrop

Next ==
    \/ Env \/ Watcher \/ Child
    \/ MainRecv \/ HandleWrite \/ HandleProc \/ MainRegister
Spec == Init /\ [][Next]_vars

\* ---- a Monitor whose handler only takes note of its argument --------------
InitMon ==
    /\ LoadingInit
    /\ display = FALSE /\ verbose = FALSE /\ quiet = FALSE
    /\ rx = <<>> /\ watched = {} /\ exists = {Root, Doc("md")}
    /\ dirty = [p \in AllPaths |-> "none"]
    /\ budget = MaxMonEnv
    /\ mpc = "off" /\ cur = NoEvent /\ pend = <<>> /\ procs = <<>>
    /\ called = {} /\ mine = {} /\ result = "none" /\ scripts = {<<>>}
    /\ monPc = "start" /\ handled = <<>>

NextMon == Env \/ Watcher \/ MonStart \/ MonLoop
SpecMon == InitMon /\ [][NextMon]_vars

\* The loop of Monitor::watch and the watcher's thread are threads of their
\* own: each eventually takes a step it can take.  What the user does is
\* under no such obligation.
SpecMonFair ==
    /\ InitMon /\ [][NextMon]_vars
    /\ WF_vars(MonStart) /\ WF_vars(MonLoop)
    /\ \A p \in AllPaths : WF_vars(FsEmit(p))

\* ---- handle_write called on its own ---------------------------------------
\* handle_write is a pub fn of the library: a caller hands it one path after
\* the other, any path and any flags.  The calls wait in rx; the children
\* print nothing and write no file, so no call causes a further one.
MaxCalls == 2
Readme == [stem |-> "README", ext |-> ""]
HwPaths == AllPaths \cup {Readme, NoPath}
CallSeqs == SeqsUpTo({Event("Write", p) : p \in HwPaths}, MaxCalls) \ {<<>>}

InitHw ==
    /\ LoadingInit
    /\ display \in BOOLEAN /\ verbose \in BOOLEAN /\ quiet \in BOOLEAN
    /\ rx \in CallSeqs
    /\ watched = {Root} /\ exists = {Root}
    /\ dirty = [p \in AllPaths |-> "none"]
    /\ budget = 0
    /\ mpc = "recv" /\ cur = NoEvent /\ pend = <<>> /\ procs = <<>>
    /\ called = {} /\ mine = {} /\ result = "none" /\ scripts = {<<>>}
    /\ monPc = "off" /\ handled = <<>>

ChildDone == \E i \in DOMAIN procs : ChildExit(i)
NextHw ==
    \/ MainRecv \/ HandleWrite \/ ProcEof \/ ProcDrop \/ MainRegister
    \/ ChildDone \/ Advance
SpecHw == InitHw /\ [][NextHw]_vars

\* ---- claims ---------------------------------------------------------------

AliveTickers == {i \in DOMAIN tickers : Alive(i)}
ConnectedTickers == {i \in DOMAIN tickers : tickers[i].connected}

\* C1: in every reachable state at most one ticker thread is alive (a ticker
\* superseded by start() has terminated before the new one is launched).
C1_AtMostOneAlive == Cardinality(AliveTickers) <= 1

\* C2: when start() supersedes a ticker, that ticker's channel is
\* disconnected by the same start() (it is signalled to stop), every
\* superseded ticker eventually terminates, and the only ticker that is not
\* signalled is the one launched by the latest start().
C2_Supersession ==
    /\ [][(Len(tickers') > Len(tickers) /\ thread # 0)
            => ~tickers'[thread].connected]_vars
    /\ [](thread # 0 => ConnectedTickers = {thread})
    /\ \A i \in 1..MaxStarts :
          (i \in DOMAIN tickers /\ i # thread)
              ~> (i \in DOMAIN tickers /\ tickers[i].pc = "done")

\* two start() calls, no finish(): the first ticker has ended before
\* reaching the end of its bar, the second is the one still running
C2_Witness ==
    /\ Len(tickers) = 2
    /\ tickers[1].pc = "done" /\ tickers[1].pos < BarLen
    /\ Alive(2) /\ tickers[2].connected /\ thread = 2

\* C3: the position of every ticker's bar is between 0 and the bar length.
C3_PositionInRange == \A i \in DOMAIN tickers : tickers[i].pos \in 0..BarLen

\* a ticker ran its bar to the end while a second ticker exists
C3_Witness ==
    \E i \in DOMAIN tickers :
        /\ tickers[i].pos = BarLen /\ tickers[i].pc = "done"
        /\ Len(tickers) > 1

\* C4: a Create event is handed to handle_write only when its path has been
\* registered with the watcher.
C4_RegisteredBeforeDispatch ==
    (mpc = "dispatch" /\ cur.kind = "Create") => cur.path \in watched

\* handle_proc waits for data on one stream of a child that is itself
\* waiting for room in the pipe of its other stream
PipeDeadlock ==
    /\ mpc = "drain" /\ verbose
    /\ LET i == Head(pend)
           r == Stream(procs[i])
           w == NextWork(i)
       IN  /\ Running(i)
           /\ Level(procs[i], r) = 0
           /\ w \in {"out", "err"} /\ w # r
           /\ ReadEnd(procs[i], w)
           /\ Level(procs[i], w) = PipeCap

\* C5: draining never deadlocks: the state in which the child is blocked
\* writing to a full pipe while the runner is blocked reading the other pipe
\* is unreachable.
C5_NoPipeDeadlock == ~PipeDeadlock

\* C6: when handle_write has returned, every converter it spawned has exited
\* and both its streams have been read to their end.
C6_ReturnsAfterChildrenDone ==
    mpc = "register" =>
        \A i \in mine :
            procs[i].conv # "imgcat" =>
                procs[i].st = "exit" /\ procs[i].eofOut /\ procs[i].eofErr

\* C7: when handle_write has returned for an .html path, both the PDF step
\* and the PNG step have been dispatched, whatever became of the other one.
C7_BothHtmlStepsDispatched ==
    (mpc = "register" /\ CurExt = "html") =>
        called = {"wkhtmltopdf", "wkhtmltoimage"}

\* C8: an .html path is handed to handle_write, which starts the steps that
\* read it, only when every converter that produces it has written it
\* completely or is gone.
C8_ConsumerAfterProducer ==
    (mpc = "dispatch" /\ CurExt = "html") =>
        \A i \in DOMAIN procs : procs[i].output = cur.path => OutputSettled(i)

\* C9: once the watch loop of the Monitor runs, no failure ends it.
C9_WatchLoopNeverEnds == [][monPc = "loop" => monPc' = "loop"]_vars


Delivered(p) == \E k \in DOMAIN handled : handled[k].path = p

\* C11: a path created under a watched root while the watch loop runs
\* eventually has an event delivered to the handler, whatever events come
\* before it, creations whose registration fails included.
C11_CreatedIsDelivered ==
    \A p \in AllPaths :
        (monPc = "loop" /\ dirty[p] = "Create") ~> Delivered(p)


\* C12: handle_write on a path whose extension is none of md, adoc, html and
\* png, or that has no extension, returns Ok, spawns no child and leaves
\* timer, eta, delay, the Sender and every ticker as they were, whatever the
\* flags are.
C12_OtherIsNoOp ==
    [][(mpc = "dispatch" /\ CurExt \notin Exts /\ mpc' # "dispatch") =>
        (result' = "Ok" /\ procs' = procs /\ loadingVars' = loadingVars)]_vars

C12_Witness ==
    /\ mpc = "register" /\ cur.path = Readme /\ result = "Ok"
    /\ thread # 0 /\ Alive(thread)
    /\ display /\ verbose /\ ~quiet


\* the cap MaxMsgs on the messages waiting in one channel is not reached
BelowCap == thread = 0 \/ tickers[thread].msgs < MaxMsgs

\* C13: finish() can be called and returns in every state of the ticker
\* (running, gone after the bar was full, gone after an earlier finish(), or
\* never started): the call stores the elapsed time in eta and the delay
\* computed from it, and no state of the ticker makes it fail.
C13_FinishAlwaysSucceeds ==
    BelowCap =>
        ENABLED (Finish /\ eta' = timer /\ delay' = RoundDiv(timer, DelayDivisor))

C13_Witness ==
    /\ thread # 0 /\ tickers[thread].stop = "full"
    /\ timer > 0 /\ eta = timer /\ delay = RoundDiv(timer, DelayDivisor)


\* the integer nearest to x / DelayDivisor
Nearest(x) ==
    CHOOSE n \in 0..x :
        /\ 2 * DelayDivisor * n - DelayDivisor <= 2 * x
        /\ 2 * x < 2 * DelayDivisor * n + DelayDivisor

\* C14: a ticker launched by start() sleeps 100 ms per tick if no finish()
\* was called before, and otherwise the elapsed milliseconds that the latest
\* finish() measured, divided by 100 and rounded to the nearest integer;
\* what finish() measures is the time since the latest start() (since
\* Loading::new() as long as start() was never called).
C14_LaunchDelay ==
    /\ [][Len(tickers') > Len(tickers) =>
            tickers'[Len(tickers')].delay =
                IF eta = InitialEtaMs THEN InitialDelayMs ELSE Nearest(eta)]_vars
    /\ [][eta' # eta => eta' = timer]_vars

C14_Witness ==
    /\ Len(tickers) = 2
    /\ tickers[1].delay = InitialDelayMs
    /\ tickers[2].delay = 1 /\ eta = 51


\* the command line the claim gives for a converter
ClaimedArgv(conv, v, input, output) ==
    CASE conv = "pandoc" /\ v ->
            <<Flag("--verbose"), PathArg(input), Flag("-o"), PathArg(output)>>
      [] conv = "pandoc" /\ ~v ->
            <<PathArg(input), Flag("-o"), PathArg(output)>>
      [] conv = "asciidoctor" /\ v -> <<Flag("--verbose"), PathArg(input)>>
      [] conv = "asciidoctor" /\ ~v -> <<PathArg(input)>>
      [] conv \in {"wkhtmltopdf", "wkhtmltoimage"} /\ v ->
            <<PathArg(input), PathArg(output)>>
      [] conv \in {"wkhtmltopdf", "wkhtmltoimage"} /\ ~v ->
            <<Flag("--log-level"), Flag("none"), PathArg(input), PathArg(output)>>

\* C15: the arguments of every converter that was spawned are a fixed
\* function of the converter and of verbose: pandoc [--verbose] input -o
\* output, asciidoctor [--verbose] input, wkhtmltopdf and wkhtmltoimage
\* [--log-level none] input output; converting doc.md without verbose runs
\* pandoc doc.md -o doc.html.
C15_Invocation ==
    \A i \in DOMAIN procs :
        procs[i].conv # "imgcat" =>
            /\ procs[i].conv \in {"pandoc", "asciidoctor", "wkhtmltopdf", "wkhtmltoimage"}
            /\ procs[i].argv =
                 ClaimedArgv(procs[i].conv, verbose, procs[i].input, procs[i].output)
            /\ (procs[i].input = Doc("md") /\ ~verbose) =>
                 /\ procs[i].conv = "pandoc"
                 /\ procs[i].argv =
                      <<PathArg(Doc("md")), Flag("-o"), PathArg(Doc("html"))>>

C15_Witness ==
    /\ ~verbose
    /\ \E i \in DOMAIN procs, j \in DOMAIN procs :
        /\ procs[i].conv = "pandoc" /\ procs[i].input = Doc("md")
        /\ procs[j].conv = "wkhtmltoimage" /\ Len(procs[j].argv) = 4


\* C16: when handle_write has returned for a path without a file-name stem,
\* it has returned an error (the output path cannot be derived).
C16_NoStemIsNamingError ==
    (mpc = "register" /\ cur.path.stem = "") => result = "Err"


\* C17: every ticker eventually terminates.  Until then it adds one to the
\* position per turn of its loop, each addition followed by a sleep or by
\* the end; it finalizes the bar exactly once, when it ends; and once a
\* message of finish() waits in its channel it adds at most one more (the
\* addition that follows a try_recv already made) and ends at its next
\* try_recv.
C17_TickerTerminates ==
    /\ \A i \in 1..MaxStarts :
        (i \in DOMAIN tickers) ~> (i \in DOMAIN tickers /\ tickers[i].pc = "done")
    /\ [](\A i \in DOMAIN tickers :
            tickers[i].finals = (IF tickers[i].pc = "done" THEN 1 ELSE 0))
    /\ [][\A i \in DOMAIN tickers :
            /\ tickers'[i].pos # tickers[i].pos =>
                 /\ tickers'[i].pos = tickers[i].pos + 1
                 /\ tickers[i].pc = "inc"
                 /\ tickers'[i].pc \in {"sleep", "done"}
            /\ tickers[i].pc = "done" => tickers'[i].pc = "done"
            /\ tickers[i].msgs > 0 =>
                 /\ tickers[i].pc = "sleep" => tickers'[i].pc \in {"sleep", "recv"}
                 /\ tickers[i].pc = "recv" => tickers'[i].pc \in {"recv", "done"}]_vars

C17_Witness ==
    \E i \in DOMAIN tickers :
        /\ tickers[i].stop = "msg" /\ tickers[i].pos = 1
        /\ tickers[i].finals = 1 /\ tickers[i].pc = "done"


\* the running handle_write returns or goes on to handle_proc
HwActs == mpc = "dispatch" /\ mpc' # "dispatch"
Started == thread' # thread
Finished ==
    /\ eta' = timer /\ delay' = RoundDiv(timer, DelayDivisor)
    /\ thread # 0 /\ Alive(thread) => tickers'[thread].msgs = tickers[thread].msgs + 1

\* C18: handle_write calls start() on an .md or .adoc path and on no other,
\* calls neither start() nor finish() on an .html path, and, whatever quiet
\* is, on a .png path calls finish() if an indicator was started, so that
\* the indicator started for the source of a pipeline is finished by the .png
\* event of that pipeline.
C18_StartedIsFinished ==
    [][HwActs =>
        /\ Started <=> CurExt \in {"md", "adoc"}
        /\ CurExt = "html" => loadingVars' = loadingVars
        /\ (CurExt = "png" /\ thread # 0) => Finished]_vars


\* C19 as stated: only the ticker launched by the latest start() ever takes
\* a message of finish() out of its channel; a superseded ticker ends by
\* disconnection or by a full bar.
C19_SupersededNeverGetsMessage ==
    [][\A i \in DOMAIN tickers :
        (tickers[i].stop # "msg" /\ tickers'[i].stop = "msg") => i = thread]_vars

\* C19: finish() sends its message to the ticker launched by the latest
\* start() and to no other, so a superseded ticker is never sent a message
\* (one sent to it while it was the latest may still wait in its channel
\* and end it), and without a start() before it finish() sends nothing.
C19_StopOnlyToLatest ==
    [][\A i \in DOMAIN tickers :
        tickers'[i].msgs > tickers[i].msgs => (i = thread /\ thread' = thread)]_vars

C19_Witness ==
    /\ Len(tickers) = 2 /\ thread = 2
    /\ Alive(1) /\ tickers[1].msgs = 1 /\ ~tickers[1].connected
    /\ tickers[2].msgs = 1


\* a ticker thread has taken a step
TickerMoved == \E i \in DOMAIN tickers : tickers'[i].pc # tickers[i].pc

\* C20: the delay of a ticker is the one it was launched with, whatever
\* finish() does afterwards; finish() changes eta and delay of the Loading
\* only; start() changes neither eta nor delay; and no step of a ticker
\* changes timer, eta or delay.
C20_DelayFixedAtLaunch ==
    /\ [][\A i \in DOMAIN tickers : tickers'[i].delay = tickers[i].delay]_vars
    /\ [][Len(tickers') > Len(tickers) =>
            /\ eta' = eta /\ delay' = delay
            /\ tickers'[Len(tickers')].delay = delay]_vars
    /\ [][TickerMoved => <<timer, eta, delay>>' = <<timer, eta, delay>>]_vars

C20_Witness ==
    \E i \in DOMAIN tickers :
        /\ Alive(i) /\ tickers[i].pos > 0
        /\ tickers[i].delay = InitialDelayMs /\ delay = 1 /\ eta = timer
====
